---- MODULE Spec2Model ----
(***************************************************************************)
(* Model of the data manager service (services/datamanager/builtin):      *)
(* the builtIn struct, Reconfigure, Close, Sync, the sync scheduler loop   *)
(* and the sync pass, as threads that share the engine lock.               *)
(***************************************************************************)
EXTENDS Integers, Sequences, FiniteSets, TLC

\* ------------------------------------------------------------------ bounds
MaxDecls == 2
MaxTasks == 3
MaxSyncers == 2
MaxFiles == 1
MaxConns == 2
MaxCloses == 2

\* --------------------------------------------------------------- identities
\* resourceMethodMetadata values.  "a" and "b" are constructible sources;
\* "m" has additional parameters BuildCaptureMetadata cannot convert, "n" has a
\* method with no registered collector constructor, "p" is a board Analogs
\* source whose additional parameters lack reader_name.
resourceMethodMetadata == {"a", "b", "m", "n", "p"}

viamCaptureDotDir == "default"

TaskIds == 1..MaxTasks
SyncerIds == 1..MaxSyncers
LoopIds == {"L1", "L2"}
Threads == {"host", "sync"} \cup LoopIds

\* ------------------------------------------------------------------- state
VARIABLES
  svc,                \* the fields of the builtIn struct
  tasks,              \* the collector objects: TaskIds -> [md, closes]
  syncers,            \* the sync clients with their connections: SyncerIds -> record
  lock,               \* svc.lock: "free" or the thread that holds it
  pc,                 \* position of every thread
  ctxDone,            \* the scheduler loops whose context has been cancelled
  toSync,             \* per sync pass: the number of candidate paths it found
  pass,               \* per sync pass: what it flushed, found and handed to SyncFile
  fsys,               \* a directory tree, the clock, and what getAllFilesToSync returned
  rcc,                \* a ReconfigurableClientConn, its channels and its callers
  logs,               \* positions of the declarations whose capture frequency the call in progress logged
  io,                 \* blocking I/O the last step performed while it held svc.lock
  hl,                 \* local of the host's running Reconfigure: {} or {reinitSyncer}
  args,               \* {} or {the call the host's Reconfigure was given}, where recorded
  ret,                \* result of the host's last call
  pre                 \* {} or {snapshot of <<svc, tasks>> at the start of the host's call}

vars == <<svc, tasks, syncers, lock, pc, ctxDone, toSync, pass, fsys, rcc, logs, io, hl, args, ret, pre>>

\* ------------------------------------------------------------ declarations
\* A datamanager.DataCaptureConfig as Reconfigure sees it.
DataCaptureConfig(md, hz, dis, res) ==
  [md |-> md, CaptureFrequencyHz |-> hz, Disabled |-> dis, Resource |-> res,
   Tags |-> "nil", CaptureDirectory |-> ""]

NoConfig == DataCaptureConfig("a", 0, TRUE, FALSE)

\* collectorAndConfig; Collector = 0 stands for "no entry in the map".
NoColl == [Collector |-> 0, Config |-> NoConfig]
EmptyCollectors == [md \in resourceMethodMetadata |-> NoColl]

FreeTask == [md |-> "-", closes |-> 0]

\* DataCaptureConfig.Equals: the declarations are deep-equal.
Equals(c, d) == c = d

\* updateDataCaptureConfigs (the resource lookup is the input field Resource)
\* followed by `resConf.Tags = svcConfig.Tags`.
updateDataCaptureConfigs(resConf, captureDir, tgs) ==
  [resConf EXCEPT !.CaptureDirectory = captureDir, !.Tags = tgs]

Min(x, y) == IF x < y THEN x ELSE y

\* Collector.Close on task t.
CollectorClose(heap, t) ==
  [heap EXCEPT ![t].closes = Min(2, @ + 1)]

FreeSlots(heap) == {t \in TaskIds : heap[t] = FreeTask}
NewSlot(heap) == CHOOSE t \in FreeSlots(heap) : \A u \in FreeSlots(heap) : t <= u

BuildCaptureMetadataFails(md) == md = "m"
CollectorLookupNil(md) == md = "n"
MissingAdditionalParam(md) == md = "p"

\* initializeOrUpdateCollector: [err, entry, heap, mkdir].  envFail: os.MkdirAll
\* or the collector constructor returns an error.  mkdir: os.MkdirAll was called.
initializeOrUpdateCollector(md, config, colls, heap, envFail) ==
  IF BuildCaptureMetadataFails(md)
  THEN [err |-> TRUE, entry |-> NoColl, heap |-> heap, mkdir |-> FALSE]
  ELSE IF colls[md] # NoColl /\ Equals(colls[md].Config, config)
  THEN [err |-> FALSE, entry |-> colls[md], heap |-> heap, mkdir |-> FALSE]
  ELSE LET h1 == IF colls[md] # NoColl
                 THEN CollectorClose(heap, colls[md].Collector) ELSE heap
       IN IF CollectorLookupNil(md) \/ MissingAdditionalParam(md)
          THEN [err |-> TRUE, entry |-> NoColl, heap |-> h1, mkdir |-> FALSE]
          ELSE IF envFail
          THEN [err |-> TRUE, entry |-> NoColl, heap |-> h1, mkdir |-> TRUE]
          ELSE LET t == NewSlot(h1)
               IN [err |-> FALSE,
                   entry |-> [Collector |-> t, Config |-> config],
                   heap |-> [h1 EXCEPT ![t] = [md |-> md, closes |-> 0]],
                   mkdir |-> TRUE]

\* closeCollectors: Close on every entry of the map, which is emptied.
RECURSIVE CloseAll(_, _)
CloseAll(heap, ts) ==
  IF ts = {} THEN heap
  ELSE LET t == CHOOSE x \in ts : TRUE
       IN CloseAll(CollectorClose(heap, t), ts \ {t})

InMap(colls) == {md \in resourceMethodMetadata : colls[md] # NoColl}

\* Variant: the map is emptied but Close is not called on its collectors.
closeCollectorsNoClose(heap, colls) == heap

closeCollectors(heap, colls) ==
  CloseAll(heap, {colls[md].Collector : md \in InMap(colls)})

\* The loop over svcConfig.ResourceConfigs in Reconfigure.
\* st = [heap, newCollectors, hz, logged, mkdir]
RECURSIVE ResourceConfigsLoop(_, _, _, _, _)
RECURSIVE ResourceConfigsLoopAbort(_, _, _, _, _)

\* Variant: the first construction error ends the loop.
ResourceConfigsLoopAbort(confs, i, c, colls, st) ==
  IF i > Len(confs) THEN st
  ELSE
    LET resConf == updateDataCaptureConfigs(confs[i], c.CaptureDir, c.Tags)
        md == resConf.md
    IN IF ~resConf.Resource
       THEN ResourceConfigsLoopAbort(confs, i + 1, c, colls, st)
       ELSE
         LET st1 == [st EXCEPT !.hz[md] = resConf.CaptureFrequencyHz]
         IN IF ~resConf.Disabled /\ resConf.CaptureFrequencyHz > 0
            THEN LET r == initializeOrUpdateCollector(md, resConf, colls, st1.heap,
                                                      c.envFailAt = i)
                 IN IF r.err THEN [st1 EXCEPT !.heap = r.heap]
                    ELSE ResourceConfigsLoopAbort(confs, i + 1, c, colls,
                           [st1 EXCEPT !.heap = r.heap,
                                       !.mkdir = @ \/ r.mkdir,
                                       !.newCollectors[md] = r.entry])
            ELSE ResourceConfigsLoopAbort(confs, i + 1, c, colls, st1)

ResourceConfigsLoop(confs, i, c, colls, st) ==
  IF i > Len(confs) THEN st
  ELSE
    LET resConf == updateDataCaptureConfigs(confs[i], c.CaptureDir, c.Tags)
        md == resConf.md
    IN IF ~resConf.Resource
       THEN ResourceConfigsLoop(confs, i + 1, c, colls, st)
       ELSE
         LET log == st.hz[md] # resConf.CaptureFrequencyHz
             st1 == [st EXCEPT !.hz[md] = resConf.CaptureFrequencyHz,
                               !.logged = IF log THEN @ \cup {i} ELSE @]
         IN IF ~resConf.Disabled /\ resConf.CaptureFrequencyHz > 0
            THEN LET r == initializeOrUpdateCollector(md, resConf, colls, st1.heap,
                                                      c.envFailAt = i)
                 IN ResourceConfigsLoop(confs, i + 1, c, colls,
                      [st1 EXCEPT !.heap = r.heap,
                                  !.mkdir = @ \/ r.mkdir,
                                  !.newCollectors[md] =
                                     IF r.err THEN @ ELSE r.entry])
            ELSE ResourceConfigsLoop(confs, i + 1, c, colls, st1)

\* Variant: collectors that are no longer declared are left running.
CloseRemovedNone(heap, colls, newCollectors) == heap

\* "If a component/method has been removed from the config, close the collector."
CloseRemoved(heap, colls, newCollectors) ==
  CloseAll(heap, {colls[md].Collector :
                    md \in {x \in InMap(colls) : newCollectors[x] = NoColl}})

\* Collector objects that are closed and no longer referenced are dropped.
Collect(heap, colls) ==
  [t \in TaskIds |->
     IF heap[t].closes > 0 /\ \A md \in resourceMethodMetadata : colls[md].Collector # t
     THEN FreeTask ELSE heap[t]]


\* ------------------------------------------------------------ sync clients
\* A sync client and the connection it was built on.
FreeSyncer == [state |-> "free", tags |-> "unset", from |-> "none", connCloses |-> 0]
NilSyncer == [kind |-> "nil", id |-> 0]
NoopSyncer == [kind |-> "noop", id |-> 0]

FreeSyncerSlots(hp) == {s \in SyncerIds : hp[s] = FreeSyncer}
NewSyncerSlot(hp) == CHOOSE s \in FreeSyncerSlots(hp) : \A u \in FreeSyncerSlots(hp) : s <= u

\* closeSyncer: [svc, syncers]
closeSyncer(s, hp) ==
  LET hp1 == IF s.syncer.kind = "client"
             THEN [hp EXCEPT ![s.syncer.id].state = "closed"] ELSE hp
      hp2 == IF s.cloudConn # 0
             THEN [hp1 EXCEPT ![s.cloudConn].connCloses = Min(2, @ + 1)] ELSE hp1
  IN [svc |-> [s EXCEPT !.syncer = NilSyncer], syncers |-> hp2]

\* initSyncer: [err, svc, syncers]; err = "" is the nil error.  acq is what AcquireConnection returns
\* within grpcConnectionTimeout: "ok", "err" (error or timeout) or "notCloudManaged".
initSyncer(s, hp, acq) ==
  IF acq = "notCloudManaged"
  THEN [err |-> "errNotCloudManaged", svc |-> [s EXCEPT !.syncer = NoopSyncer],
        syncers |-> hp]
  ELSE IF acq = "err"
  THEN [err |-> "errConn", svc |-> s, syncers |-> hp]
  ELSE LET n == NewSyncerSlot(hp)
       IN [err |-> "",
           svc |-> [s EXCEPT !.syncer = [kind |-> "client", id |-> n], !.cloudConn = n],
           syncers |-> [hp EXCEPT ![n] = [state |-> "open", tags |-> "unset",
                                          from |-> s.cloudConnSvc, connCloses |-> 0]]]

\* syncer.SetArbitraryFileTags(tags)
SetArbitraryFileTags(s, hp) ==
  IF s.syncer.kind = "client" THEN [hp EXCEPT ![s.syncer.id].tags = s.tags] ELSE hp

\* Sync clients and connections nothing refers to any more are dropped.
CollectSyncers(hp, s) ==
  [n \in SyncerIds |->
     IF (s.syncer.kind = "client" /\ s.syncer.id = n) \/ s.cloudConn = n
     THEN hp[n] ELSE FreeSyncer]

\* sync.WaitGroup backgroundWorkers: the scheduler goroutines that have not returned.
backgroundWorkers == Cardinality({l \in LoopIds : pc[l] # "none"})

defaultFileLastModifiedMillis == 10000

\* No directory tree is looked at.
NoFsys == [files |-> << >>, lastModifiedMillis |-> 0, filePaths |-> {}, walked |-> FALSE]

\* The connection handle (grpc.ReconfigurableClientConn).  Channels are
\* 1..MaxConns, 0 is the nil rpc.ClientConn.  One goroutine calls Invoke, one
\* NewStream, one ReplaceConn and one Close.
ConnIds == 1..MaxConns
Callers == {"Invoke", "NewStream"}
ConnThreads == Callers \cup {"rep", "cls"}

\* conn: c.conn.  readers, writer: who holds c.connMu.  at: where each goroutine
\* is.  snap, res: per caller, its local conn and what it returns.  delegated: the channels the call was handed to.  seen: the
\* values c.conn had between the call's entry and its snapshot.  arg: ReplaceConn's argument.
\* closes: Close calls each channel received.  was, closesWas: c.conn and closes
\* when Close took the lock.  closeRet: what Close returns.  closedSince: Close
\* calls that ran since the last ReplaceConn.
NoRcc ==
  [conn |-> 0, readers |-> {}, writer |-> "none",
   at |-> [t \in ConnThreads |-> "idle"],
   snap |-> [c \in Callers |-> 0],
   res |-> [c \in Callers |-> "none"],
   delegated |-> [c \in Callers |-> {}],
   seen |-> [c \in Callers |-> {}],
   arg |-> 0,
   closes |-> [n \in ConnIds |-> 0],
   was |-> 0, closesWas |-> [n \in ConnIds |-> 0],
   closeRet |-> "none", closedSince |-> 0]

\* The locals of one run of sync(): the collectors flushCollectors flushed, the
\* candidates the walks found (in the capture directory, in each additional
\* path, and the additional paths walked), the SyncFile calls made, the client
\* they were made on, what the manual Sync returned, and for a scheduled pass
\* what the sensor's Readings call gave the gate.
NoClient == [kind |-> "none", state |-> "-", tags |-> "-", want |-> "-"]
NoPass == [flushed |-> {}, active |-> {}, found |-> <<0, 0, 0>>, calls |-> 0,
           client |-> NoClient, built |-> FALSE, ret |-> "none", reading |-> "none"]

\* ------------------------------------------------------------------- Init
\* The struct NewBuiltIn builds, before its first Reconfigure.
InitEngine ==
  /\ svc = [captureDir |-> viamCaptureDotDir,
            captureDisabled |-> FALSE,
            collectors |-> EmptyCollectors,
            additionalSyncPaths |-> << >>,
            fileLastModifiedMillis |-> defaultFileLastModifiedMillis,
            tags |-> "empty",
            syncDisabled |-> FALSE,
            syncIntervalMins |-> 0,
            syncRoutineCancelFn |-> "nil",
            syncer |-> NilSyncer,
            cloudConnSvc |-> "none",
            cloudConn |-> 0,
            syncTicker |-> "nil",
            syncSensor |-> "nil",
            selectiveSyncEnabled |-> FALSE,
            componentMethodFrequencyHz |-> [md \in resourceMethodMetadata |-> -1]]
  /\ tasks = [t \in TaskIds |-> FreeTask]
  /\ syncers = [n \in SyncerIds |-> FreeSyncer]
  /\ lock = "free"
  /\ pc = [t \in Threads |-> IF t \in LoopIds THEN "none" ELSE "idle"]
  /\ ctxDone = {}
  /\ toSync = [t \in Threads |-> 0]
  /\ pass = [t \in Threads |-> NoPass]
  /\ io = {}
  /\ hl = {}
  /\ args = {}
  /\ ret = "none"
  /\ logs = {}
  /\ pre = {}

Init == InitEngine /\ fsys = NoFsys /\ rcc = NoRcc

Snapshot == [svc |-> svc, tasks |-> tasks, syncers |-> syncers,
             running |-> {l \in LoopIds : pc[l] # "none"}]

\* ------------------------------------------------------------ Reconfigure
\* svc.lock.Lock() at the top of Reconfigure.
RecLock ==
  /\ pc["host"] = "idle"
  /\ lock = "free"
  /\ lock' = "host"
  /\ pc' = [pc EXCEPT !["host"] = "rec1"]
  /\ pre' = {Snapshot}
  /\ ret' = "none"
  /\ io' = {}
  /\ UNCHANGED <<svc, tasks, syncers, ctxDone, toSync, pass, hl, args>>
  /\ UNCHANGED <<fsys, rcc, logs>>

TheReinit == CHOOSE x \in hl : TRUE

\* Lines 406-423: the dependency lookup and the capture directory check.
\* "" when the call goes on, else the error it returns.
RecRejects(c) ==
  IF c.connSvc = "none" THEN "errDeps"
  ELSE IF ~c.trusted /\ c.CaptureDir # "" /\ c.CaptureDir # viamCaptureDotDir
  THEN "errCaptureDir"
  ELSE ""

\* Lines 416-417.
RecConnSvc(s, c) == [s EXCEPT !.cloudConnSvc = c.connSvc]

\* Lines 425-494: the capture directory and the collectors.  [svc, tasks, io, logged]
RecCollectors(s, heap, c) ==
  LET h0 == IF c.CaptureDisabled THEN closeCollectors(heap, s.collectors) ELSE heap
      colls == IF c.CaptureDisabled THEN EmptyCollectors ELSE s.collectors
      st0 == [heap |-> h0, newCollectors |-> EmptyCollectors,
              hz |-> s.componentMethodFrequencyHz, logged |-> {}, mkdir |-> FALSE]
      st == IF c.CaptureDisabled THEN st0
            ELSE ResourceConfigsLoop(c.ResourceConfigs, 1, c, colls, st0)
      h2 == CloseRemoved(st.heap, colls, st.newCollectors)
  IN [svc |-> [s EXCEPT !.captureDir = IF c.CaptureDir # "" THEN c.CaptureDir
                                        ELSE viamCaptureDotDir,
                        !.captureDisabled = c.CaptureDisabled,
                        !.collectors = st.newCollectors,
                        !.additionalSyncPaths = c.AdditionalSyncPaths,
                        !.componentMethodFrequencyHz = st.hz],
      tasks |-> h2,
      io |-> (IF h2 # heap THEN {"closeTask"} ELSE {}) \cup
             (IF st.mkdir THEN {"mkdir"} ELSE {}),
      logged |-> st.logged]

EffectiveFileLastModifiedMillis(c) ==
  IF c.FileLastModifiedMillis <= 0 THEN defaultFileLastModifiedMillis
  ELSE c.FileLastModifiedMillis

\* Variant: a source that cannot be resolved switches selective sync off.
RecSensorOffWhenUnresolved(s, c) ==
  [s EXCEPT !.selectiveSyncEnabled = c.SelectiveSyncerName # "" /\ c.sensorResolves,
            !.syncSensor = IF c.SelectiveSyncerName # "" /\ c.sensorResolves
                           THEN c.SelectiveSyncerName ELSE "nil"]

\* Lines 502-515: the selective sync sensor.
RecSensor(s, c) ==
  [s EXCEPT !.selectiveSyncEnabled = c.SelectiveSyncerName # "",
            !.syncSensor = IF c.SelectiveSyncerName # "" /\ c.sensorResolves
                           THEN c.SelectiveSyncerName ELSE "nil"]

\* Variant: a change of the tags alone is not seen.
SyncSettingsChangedNoTags(s, c) ==
  \/ s.syncDisabled # c.ScheduledSyncDisabled
  \/ s.syncIntervalMins # c.SyncIntervalMins
  \/ s.fileLastModifiedMillis # (IF c.FileLastModifiedMillis <= 0
                                  THEN defaultFileLastModifiedMillis
                                  ELSE c.FileLastModifiedMillis)

\* Line 517-518.
SyncSettingsChanged(s, c) ==
  \/ s.syncDisabled # c.ScheduledSyncDisabled
  \/ s.syncIntervalMins # c.SyncIntervalMins
  \/ s.tags # c.Tags
  \/ s.fileLastModifiedMillis # EffectiveFileLastModifiedMillis(c)

\* Lines 519-522.
RecSettings(s, c) ==
  [s EXCEPT !.syncDisabled = c.ScheduledSyncDisabled,
            !.syncIntervalMins = c.SyncIntervalMins,
            !.tags = c.Tags,
            !.fileLastModifiedMillis = EffectiveFileLastModifiedMillis(c)]

\* Reconfigure from line 406 up to the cancel call in cancelSyncScheduler.
\* c is the call: the Config, the dependencies (connSvc, Resource of each
\* declaration, sensorResolves), the context (trusted) and the environment
\* (envFailAt: the declaration for which os.MkdirAll or the constructor fails).
RecPart1(c) ==
  /\ pc["host"] = "rec1"
  /\ Cardinality(FreeSlots(tasks)) >= Len(c.ResourceConfigs)
  /\ LET rej == RecRejects(c)
     IN IF rej = "errDeps"
        THEN /\ ret' = rej
             /\ pc' = [pc EXCEPT !["host"] = "rec_ret"]
             /\ hl' = {FALSE}
             /\ logs' = {}
             /\ UNCHANGED <<svc, tasks, ctxDone, io>>
        ELSE IF rej # ""
        THEN /\ ret' = rej
             /\ svc' = RecConnSvc(svc, c)
             /\ pc' = [pc EXCEPT !["host"] = "rec_ret"]
             /\ hl' = {FALSE}
             /\ logs' = {}
             /\ UNCHANGED <<tasks, ctxDone, io>>
        ELSE LET s1 == RecConnSvc(svc, c)
                 r == RecCollectors(s1, tasks, c)
                 s2 == RecSensor(r.svc, c)
                 changed == SyncSettingsChanged(s2, c)
                 s3 == IF changed THEN RecSettings(s2, c) ELSE s2
             IN /\ svc' = s3
                /\ tasks' = r.tasks
                /\ io' = r.io
                /\ logs' = r.logged
                /\ hl' = {c.connSvc # svc.cloudConnSvc}
                /\ IF ~changed
                   THEN /\ ret' = "ok"
                        /\ pc' = [pc EXCEPT !["host"] = "rec_ret"]
                        /\ UNCHANGED ctxDone
                   ELSE IF s3.syncRoutineCancelFn # "nil"
                   THEN /\ ctxDone' = ctxDone \cup {s3.syncRoutineCancelFn}
                        /\ pc' = [pc EXCEPT !["host"] = "rec_join"]
                        /\ UNCHANGED ret
                   ELSE /\ pc' = [pc EXCEPT !["host"] = "rec2"]
                        /\ UNCHANGED <<ctxDone, ret>>
  /\ UNCHANGED <<syncers, lock, toSync, pass, pre>>
  /\ UNCHANGED <<fsys, rcc>>

\* cancelSyncScheduler after the cancel call: backgroundWorkers.Wait(), then
\* syncRoutineCancelFn = nil.
\* Variant: cancelSyncScheduler does not wait for the goroutine.
cancelSyncSchedulerNoWait == TRUE

\* Variant: cancelSyncScheduler only delivers the cancellation.
cancelSyncSchedulerCancelOnly ==
  \A l \in LoopIds : pc[l] # "none" => l \in ctxDone

cancelSyncSchedulerJoined == backgroundWorkers = 0

RecJoin ==
  /\ pc["host"] = "rec_join"
  /\ cancelSyncSchedulerJoined
  /\ svc' = [svc EXCEPT !.syncRoutineCancelFn = "nil"]
  /\ pc' = [pc EXCEPT !["host"] = "rec2"]
  /\ io' = {}
  /\ UNCHANGED <<tasks, syncers, lock, ctxDone, toSync, pass, hl, args, ret, pre>>
  /\ UNCHANGED <<fsys, rcc, logs>>

FreeLoops == {l \in LoopIds : pc[l] = "none" /\ svc.syncRoutineCancelFn # l}
NewLoop == CHOOSE l \in FreeLoops : \A u \in FreeLoops : l = "L1" \/ u # "L1"

\* Lines 525-545: the sync client and the scheduler.
RecPart2(acq) ==
  /\ pc["host"] = "rec2"
  /\ IF ~svc.syncDisabled /\ svc.syncIntervalMins # 0
        THEN LET needInit == svc.syncer.kind = "nil" \/ TheReinit
                 cl == IF svc.syncer.kind # "nil" /\ TheReinit
                       THEN closeSyncer(svc, syncers)
                       ELSE [svc |-> svc, syncers |-> syncers]
                 in == IF needInit THEN initSyncer(cl.svc, cl.syncers, acq)
                       ELSE [err |-> "", svc |-> svc, syncers |-> syncers]
             IN /\ needInit \/ acq = "ok"
                /\ FreeLoops # {}
                /\ needInit => FreeSyncerSlots(cl.syncers) # {}
                /\ io' = (IF needInit THEN {"acquire"} ELSE {}) \cup
                         (IF cl.syncers # syncers THEN {"closeSyncer"} ELSE {})
                /\ IF in.err # ""
                   THEN /\ svc' = in.svc
                        /\ syncers' = in.syncers
                        /\ ret' = in.err
                        /\ pc' = [pc EXCEPT !["host"] = "rec_ret"]
                        /\ UNCHANGED ctxDone
                   ELSE LET l == NewLoop
                        IN /\ syncers' = SetArbitraryFileTags(in.svc, in.syncers)
                           /\ svc' = [in.svc EXCEPT !.syncRoutineCancelFn = l,
                                                    !.syncTicker = "set"]
                           /\ ctxDone' = ctxDone \ {l}
                           /\ ret' = "ok"
                           /\ pc' = [pc EXCEPT !["host"] = "rec_ret", ![l] = "top"]
        ELSE LET cl == closeSyncer([svc EXCEPT !.syncTicker = "nil"], syncers)
             IN /\ acq = "ok"
                /\ svc' = cl.svc
                /\ syncers' = cl.syncers
                /\ io' = IF cl.syncers # syncers THEN {"closeSyncer"} ELSE {}
                /\ ret' = "ok"
                /\ pc' = [pc EXCEPT !["host"] = "rec_ret"]
                /\ UNCHANGED ctxDone
  /\ UNCHANGED <<tasks, lock, toSync, pass, hl, args, pre>>
  /\ UNCHANGED <<fsys, rcc, logs>>

\* The deferred svc.lock.Unlock() and the return.
RecReturn ==
  /\ pc["host"] = "rec_ret"
  /\ lock' = "free"
  /\ pc' = [pc EXCEPT !["host"] = "idle"]
  /\ tasks' = Collect(tasks, svc.collectors)
  /\ syncers' = CollectSyncers(syncers, svc)
  /\ hl' = {}
  /\ args' = {}
  /\ pre' = {}
  /\ io' = {}
  /\ ret' = "none"
  /\ UNCHANGED <<svc, ctxDone, toSync, pass>>
  /\ logs' = {}
  /\ UNCHANGED <<fsys, rcc>>

\* ------------------------------------------------------------------ Close
CloseLock ==
  /\ pc["host"] = "idle"
  /\ lock = "free"
  /\ lock' = "host"
  /\ pc' = [pc EXCEPT !["host"] = "close1"]
  /\ pre' = {Snapshot}
  /\ ret' = "none"
  /\ io' = {}
  /\ UNCHANGED <<svc, tasks, syncers, ctxDone, toSync, pass, hl, args>>
  /\ UNCHANGED <<fsys, rcc, logs>>

\* Lines 180-186: closeCollectors, closeSyncer, the cancel call, Unlock.
CloseBody ==
  /\ pc["host"] = "close1"
  /\ LET h == closeCollectors(tasks, svc.collectors)
         cl == closeSyncer([svc EXCEPT !.collectors = EmptyCollectors], syncers)
     IN /\ tasks' = h
        /\ svc' = cl.svc
        /\ syncers' = cl.syncers
        /\ io' = (IF h # tasks THEN {"closeTask"} ELSE {}) \cup
                 (IF cl.syncers # syncers THEN {"closeSyncer"} ELSE {})
        /\ ctxDone' = IF svc.syncRoutineCancelFn # "nil"
                      THEN ctxDone \cup {svc.syncRoutineCancelFn} ELSE ctxDone
  /\ lock' = "free"
  /\ pc' = [pc EXCEPT !["host"] = "close_wait"]
  /\ UNCHANGED <<toSync, pass, hl, args, ret, pre>>
  /\ UNCHANGED <<fsys, rcc, logs>>

\* Line 187: svc.backgroundWorkers.Wait(), then the return.
CloseJoin ==
  /\ pc["host"] = "close_wait"
  /\ backgroundWorkers = 0
  /\ pc' = [pc EXCEPT !["host"] = "close_ret"]
  /\ ret' = "ok"
  /\ io' = {}
  /\ UNCHANGED <<svc, tasks, syncers, lock, ctxDone, toSync, pass, hl, args, pre>>
  /\ UNCHANGED <<fsys, rcc, logs>>

CloseReturn ==
  /\ pc["host"] = "close_ret"
  /\ pc' = [pc EXCEPT !["host"] = "idle"]
  /\ tasks' = Collect(tasks, svc.collectors)
  /\ syncers' = CollectSyncers(syncers, svc)
  /\ pre' = {}
  /\ ret' = "none"
  /\ io' = {}
  /\ UNCHANGED <<svc, lock, ctxDone, toSync, pass, hl, args>>
  /\ UNCHANGED <<fsys, rcc, logs>>

\* --------------------------------------------------------- scheduler loop
\* The goroutine of uploadData.  Top of the for loop: cancelCtx.Err().
LoopTop(l) ==
  /\ pc[l] = "top"
  /\ pc' = [pc EXCEPT ![l] = IF l \in ctxDone THEN "none" ELSE "select"]
  /\ pass' = [pass EXCEPT ![l] = NoPass]
  /\ io' = {}
  /\ UNCHANGED <<svc, tasks, syncers, lock, ctxDone, toSync, hl, args, ret, pre>>
  /\ UNCHANGED <<fsys, rcc, logs>>

\* select: case <-cancelCtx.Done().
LoopDone(l) ==
  /\ pc[l] = "select"
  /\ l \in ctxDone
  /\ pc' = [pc EXCEPT ![l] = "none"]
  /\ io' = {}
  /\ UNCHANGED <<svc, tasks, syncers, lock, ctxDone, toSync, pass, hl, args, ret, pre>>
  /\ UNCHANGED <<fsys, rcc, logs>>

\* select: case <-svc.syncTicker.C.
LoopTick(l) ==
  /\ pc[l] = "select"
  /\ pc' = [pc EXCEPT ![l] = "tick"]
  /\ io' = {}
  /\ UNCHANGED <<svc, tasks, syncers, lock, ctxDone, toSync, pass, hl, args, ret, pre>>
  /\ UNCHANGED <<fsys, rcc, logs>>

\* Line 590: svc.lock.Lock().
LoopLock(l) ==
  /\ pc[l] = "tick"
  /\ lock = "free"
  /\ lock' = l
  /\ pc' = [pc EXCEPT ![l] = "locked"]
  /\ io' = {}
  /\ UNCHANGED <<svc, tasks, syncers, ctxDone, toSync, pass, hl, args, ret, pre>>
  /\ UNCHANGED <<fsys, rcc, logs>>

\* Variant: every tick starts a pass.
LoopAfterGateAlways(l, shouldSync) == "flush"

\* Where the loop goes once shouldSync is known, and the lock it leaves behind.
LoopAfterGate(l, shouldSync) == IF shouldSync THEN "flush" ELSE "top"
\* Variant: the Unlock after the gate is missing.
LoopGateKeepsLock(l) == l

LoopGateUnlock(l) == "free"

\* Lines 591-606 up to the call of readyToSync.
LoopLocked(l) ==
  /\ pc[l] = "locked"
  /\ IF svc.syncer.kind = "nil"
     THEN /\ lock' = "free"
          /\ pc' = [pc EXCEPT ![l] = "top"]
     ELSE IF svc.syncSensor # "nil" /\ svc.selectiveSyncEnabled
     THEN /\ pc' = [pc EXCEPT ![l] = "gate"]
          /\ UNCHANGED lock
     ELSE /\ lock' = LoopGateUnlock(l)
          /\ pc' = [pc EXCEPT ![l] = LoopAfterGate(l, ~svc.selectiveSyncEnabled)]
  /\ io' = {}
  /\ UNCHANGED <<svc, tasks, syncers, ctxDone, toSync, pass, hl, args, ret, pre>>
  /\ UNCHANGED <<fsys, rcc, logs>>

\* What the sensor's Readings call can produce.
Readings == {"error", "absent", "notbool", "true", "false"}

\* Variant: a failed Readings call counts as ready.
readyToSyncOnError(r) == r \in {"true", "error"}

\* readyToSync
readyToSync(r) == r = "true"

\* Line 597: readyToSync(cancelCtx, svc.syncSensor, svc.logger), then Unlock.
LoopGate(l, r) ==
  /\ pc[l] = "gate"
  /\ io' = IF lock = l THEN {"readings"} ELSE {}
  /\ lock' = LoopGateUnlock(l)
  /\ pc' = [pc EXCEPT ![l] = LoopAfterGate(l, readyToSync(r))]
  /\ pass' = [pass EXCEPT ![l].reading = r]
  /\ UNCHANGED <<svc, tasks, syncers, ctxDone, toSync, hl, args, ret, pre>>
  /\ UNCHANGED <<fsys, rcc, logs>>

\* ------------------------------------------------------------- sync pass
\* svc.sync() run by thread t (a scheduler loop or a manual Sync).
\* flushCollectors: Flush on every collector of svc.collectors, joined.
flushCollectors(colls) == {colls[md].Collector : md \in InMap(colls)}

\* Line 613: flushCollectors, no lock taken.
PassFlush(t) ==
  /\ pc[t] = "flush"
  /\ pc' = [pc EXCEPT ![t] = "walklock"]
  /\ pass' = [pass EXCEPT ![t].flushed = flushCollectors(svc.collectors),
                          ![t].active = {x \in TaskIds : \E md \in resourceMethodMetadata :
                                           svc.collectors[md].Collector = x}]
  /\ io' = IF lock = t /\ InMap(svc.collectors) # {} THEN {"flush"} ELSE {}
  /\ UNCHANGED <<svc, tasks, syncers, lock, ctxDone, toSync, hl, args, ret, pre>>
  /\ UNCHANGED <<fsys, rcc, logs>>

\* flushCollectors ranges over svc.collectors without the lock while the host,
\* holding the lock, is inside Reconfigure or Close, which delete from the map
\* and replace it: the Go runtime may stop the process with "concurrent map
\* iteration and map write".
PassFlushFatal(t) ==
  /\ pc[t] = "flush"
  /\ pc["host"] \in {"rec1", "close1"}
  /\ InMap(svc.collectors) # {}
  /\ pc' = [x \in Threads |-> "fatal"]
  /\ io' = {}
  /\ UNCHANGED <<svc, tasks, syncers, lock, ctxDone, toSync, pass, hl, args, ret, pre>>
  /\ UNCHANGED <<fsys, rcc, logs>>

\* Line 615: svc.lock.Lock().
PassLock(t) ==
  /\ pc[t] = "walklock"
  /\ lock = "free"
  /\ lock' = t
  /\ pc' = [pc EXCEPT ![t] = "walk"]
  /\ io' = {}
  /\ UNCHANGED <<svc, tasks, syncers, ctxDone, toSync, pass, hl, args, ret, pre>>
  /\ UNCHANGED <<fsys, rcc, logs>>

\* Variant: the Unlock before the uploads is missing.
PassWalkKeepsLock(t) == t

PassWalkUnlock(t) == "free"

\* Lines 616-619: the number of paths in toSync when getAllFilesToSync finds nc
\* candidates under the capture directory and na under each additional path.
Candidates(nc, na, paths) == nc + na * Len(paths)

\* Lines 616-620: the walks; Unlock.
PassWalk(t, nc, na) ==
  /\ pc[t] = "walk"
  /\ toSync' = [toSync EXCEPT ![t] = Candidates(nc, na, svc.additionalSyncPaths)]
  /\ pass' = [pass EXCEPT ![t].found = <<nc, na, Len(svc.additionalSyncPaths)>>]
  /\ io' = IF lock = t THEN {"walk"} ELSE {}
  /\ lock' = PassWalkUnlock(t)
  /\ pc' = [pc EXCEPT ![t] = "upload"]
  /\ UNCHANGED <<svc, tasks, syncers, ctxDone, hl, args, ret, pre>>
  /\ UNCHANGED <<fsys, rcc, logs>>

\* The sync client as a SyncFile call finds it, with the tags its last
\* SetArbitraryFileTags gave it and the tags the engine holds at the call.
ClientNow ==
  IF svc.syncer.kind = "client"
  THEN [kind |-> "client", state |-> syncers[svc.syncer.id].state,
        tags |-> syncers[svc.syncer.id].tags, want |-> svc.tags]
  ELSE [kind |-> svc.syncer.kind, state |-> "-", tags |-> "-", want |-> svc.tags]

\* Lines 622-624: one svc.syncer.SyncFile(p).  svc.syncer is read without the
\* lock; the call on a nil interface panics.
PassUpload(t) ==
  /\ pc[t] = "upload"
  /\ toSync[t] > 0
  /\ pass' = [pass EXCEPT ![t].client = ClientNow,
                          ![t].calls = IF svc.syncer.kind = "nil" THEN @ ELSE @ + 1]
  /\ IF svc.syncer.kind = "nil"
     THEN /\ pc' = [pc EXCEPT ![t] = IF t \in LoopIds THEN "none" ELSE "panic"]
          /\ toSync' = [toSync EXCEPT ![t] = 0]
     ELSE /\ toSync' = [toSync EXCEPT ![t] = @ - 1]
          /\ UNCHANGED pc
  /\ io' = IF lock = t THEN {"upload"} ELSE {}
  /\ UNCHANGED <<svc, tasks, syncers, lock, ctxDone, hl, args, ret, pre>>
  /\ UNCHANGED <<fsys, rcc, logs>>

\* sync() returns: to the loop, or to Sync, which returns nil.
PassReturn(t) ==
  /\ pc[t] = "upload"
  /\ toSync[t] = 0
  /\ pc' = [pc EXCEPT ![t] = IF t \in LoopIds THEN "top" ELSE "sync_ret"]
  /\ pass' = [pass EXCEPT ![t].ret = IF t \in LoopIds THEN @ ELSE "nil"]
  /\ io' = {}
  /\ UNCHANGED <<svc, tasks, syncers, lock, ctxDone, toSync, hl, args, ret, pre>>
  /\ UNCHANGED <<fsys, rcc, logs>>

\* ------------------------------------------------------------------- Sync
\* Line 384: svc.lock.Lock().
SyncLock ==
  /\ pc["sync"] = "idle"
  /\ lock = "free"
  /\ lock' = "sync"
  /\ pc' = [pc EXCEPT !["sync"] = "locked"]
  /\ io' = {}
  /\ UNCHANGED <<svc, tasks, syncers, ctxDone, toSync, pass, hl, args, ret, pre>>
  /\ UNCHANGED <<fsys, rcc, logs>>

\* Variant: Sync returns without a pass while selective sync is enabled.
SyncAfterInitGated(err) ==
  IF err # "" \/ svc.selectiveSyncEnabled THEN "sync_ret" ELSE "flush"

\* Lines 387-394: Sync returns the error of initSyncer, and otherwise calls
\* svc.sync().
SyncAfterInit(err) == IF err # "" THEN "sync_ret" ELSE "flush"

\* Lines 385-393: initSyncer when there is no sync client; Unlock.
SyncInit(acq) ==
  /\ pc["sync"] = "locked"
  /\ IF svc.syncer.kind = "nil"
     THEN LET hp == CollectSyncers(syncers, svc)
              in == initSyncer(svc, hp, acq)
          IN /\ FreeSyncerSlots(hp) # {}
             /\ svc' = in.svc
             /\ syncers' = in.syncers
             /\ io' = {"acquire"}
             /\ pass' = [pass EXCEPT !["sync"] =
                           [NoPass EXCEPT !.ret = IF in.err # "" THEN in.err ELSE "none",
                                          !.built = TRUE]]
             /\ pc' = [pc EXCEPT !["sync"] = SyncAfterInit(in.err)]
     ELSE /\ acq = "ok"
          /\ io' = {}
          /\ pass' = [pass EXCEPT !["sync"] = NoPass]
          /\ pc' = [pc EXCEPT !["sync"] = SyncAfterInit("")]
          /\ UNCHANGED <<svc, syncers>>
  /\ lock' = "free"
  /\ UNCHANGED <<tasks, ctxDone, toSync, hl, args, ret, pre>>
  /\ UNCHANGED <<fsys, rcc, logs>>

\* Sync has returned to its caller.
SyncReturn ==
  /\ pc["sync"] \in {"sync_ret", "panic"}
  /\ pc' = [pc EXCEPT !["sync"] = "idle"]
  /\ pass' = [pass EXCEPT !["sync"] = NoPass]
  /\ io' = {}
  /\ UNCHANGED <<svc, tasks, syncers, lock, ctxDone, toSync, hl, args, ret, pre>>
  /\ UNCHANGED <<fsys, rcc, logs>>

\* ---------------------------------------------------------- file selector
\* datasync.FailedDir, datacapture.FileExt, datacapture.InProgressFileExt.
FailedDir == "failed"
FileExt == ".capture"
InProgressFileExt == ".prog"

\* A regular file below the walked root: the directories from the root down to
\* it, its name as <<base, extension>>, clock.Since(info.ModTime()) in
\* milliseconds (negative when the file system's clock is ahead), and the
\* error filepath.Walk meets for it: none, Lstat of the file fails, or reading
\* its innermost directory fails.
File(dirs, name, age, err) == [dirs |-> dirs, name |-> name, age |-> age, err |-> err]
Absent == [dirs |-> << >>, name |-> <<"", "">>, age |-> 0, err |-> "absent"]

\* filepath.Ext of the file's path.
Ext(f) == f.name[2]

\* Variant: a negative duration is replaced by its absolute value.
MaxAbs(a, b) == IF a < b THEN b - a ELSE a

Max(a, b) == IF a >= b THEN a ELSE b

\* Variant: the failed directory is only skipped directly below the root.
visitDirTopLevelOnly(name, depth, err) ==
  IF err THEN "nil"
  ELSE IF name = FailedDir /\ depth = 1 THEN "SkipDir"
  ELSE "nil"

\* The walk function on a directory (lines 631-640): what it returns.
visitDir(name, depth, err) ==
  IF err THEN "nil"
  ELSE IF name = FailedDir THEN "SkipDir"
  ELSE "nil"

\* Variant: the configured threshold is used for in-progress files too.
isStuckInProgressCaptureFileConfigured(f, timeSinceMod, lastModifiedMillis) ==
  Ext(f) = InProgressFileExt /\ timeSinceMod >= lastModifiedMillis

\* Variant: the extension is not looked at.
isNonCaptureFileThatIsNotBeingWrittenToAnyExt(f, timeSinceMod, lastModifiedMillis) ==
  timeSinceMod >= lastModifiedMillis

\* Variant: the age has to exceed the threshold.
isNonCaptureFileThatIsNotBeingWrittenToStrict(f, timeSinceMod, lastModifiedMillis) ==
  Ext(f) # InProgressFileExt /\ timeSinceMod > lastModifiedMillis

\* Lines 649-653: the three predicates.
isStuckInProgressCaptureFile(f, timeSinceMod, lastModifiedMillis) ==
  Ext(f) = InProgressFileExt /\ timeSinceMod >= defaultFileLastModifiedMillis
isNonCaptureFileThatIsNotBeingWrittenTo(f, timeSinceMod, lastModifiedMillis) ==
  Ext(f) # InProgressFileExt /\ timeSinceMod >= lastModifiedMillis
isCompletedCaptureFile(f) == Ext(f) = FileExt

\* The walk function on a regular file (lines 631-657): TRUE when the path is
\* appended to filePaths.
visitFile(f, lastModifiedMillis) ==
  IF f.err = "lstat" THEN FALSE
  ELSE LET timeSinceMod == Max(f.age, 0)
       IN \/ isCompletedCaptureFile(f)
          \/ isStuckInProgressCaptureFile(f, timeSinceMod, lastModifiedMillis)
          \/ isNonCaptureFileThatIsNotBeingWrittenTo(f, timeSinceMod, lastModifiedMillis)

\* filepath.Walk gets to the file: no directory above it made the walk function
\* return SkipDir, and its innermost directory could be read.
Descends(f) ==
  /\ \A i \in 1..Len(f.dirs) :
       visitDir(f.dirs[i], i, i = Len(f.dirs) /\ f.err = "readdir") # "SkipDir"
  /\ f.err # "readdir"

\* getAllFilesToSync over the files of one root, in the order of the walk.
RECURSIVE getAllFilesToSync(_, _, _)
getAllFilesToSync(files, i, lastModifiedMillis) ==
  IF i > Len(files) THEN << >>
  ELSE LET f == files[i]
           rest == getAllFilesToSync(files, i + 1, lastModifiedMillis)
       IN IF f # Absent /\ Descends(f) /\ visitFile(f, lastModifiedMillis)
          THEN <<i>> \o rest ELSE rest

\* One call of getAllFilesToSync on the tree of fsys.
Select ==
  /\ ~fsys.walked
  /\ fsys' = [fsys EXCEPT
       !.filePaths =
          LET p == getAllFilesToSync(fsys.files, 1, fsys.lastModifiedMillis)
          IN {p[k] : k \in 1..Len(p)},
       !.walked = TRUE]
  /\ UNCHANGED <<svc, tasks, syncers, lock, pc, ctxDone, toSync, pass, rcc, logs, io, hl, args, ret, pre>>

\* ------------------------------------------------------ connection handle
EngineIdle ==
  UNCHANGED <<svc, tasks, syncers, lock, pc, ctxDone, toSync, pass, fsys, logs, io, hl, args, ret, pre>>

\* Invoke or NewStream is called.
CallBegin(c) ==
  /\ rcc.at[c] = "idle"
  /\ rcc' = [rcc EXCEPT !.at[c] = "rlock", !.snap[c] = 0,
                        !.res[c] = "none", !.delegated[c] = {},
                        !.seen[c] = {rcc.conn}]
  /\ EngineIdle

\* sync.RWMutex: RLock waits while a writer holds the mutex or waits for it.
WriterPending == \E w \in {"rep", "cls"} : rcc.at[w] = "lock"
RLockFree == rcc.writer = "none" /\ ~WriterPending
LockFree == rcc.writer = "none" /\ rcc.readers = {}

\* c.connMu.RLock()
CallRLock(c) ==
  /\ rcc.at[c] = "rlock"
  /\ RLockFree
  /\ rcc' = [rcc EXCEPT !.at[c] = "read", !.readers = @ \cup {c}]
  /\ EngineIdle

\* Variant: the read lock is released by a deferred RUnlock, when the call
\* returns.
RUnlockDeferred(readers, c) == readers

\* c.connMu.RUnlock()
RUnlock(readers, c) == readers \ {c}

\* conn := c.conn; c.connMu.RUnlock()
CallSnapshot(c) ==
  /\ rcc.at[c] = "read"
  /\ rcc' = [rcc EXCEPT !.at[c] = "check", !.snap[c] = rcc.conn,
                        !.readers = RUnlock(@, c)]
  /\ EngineIdle

\* Variant: the nil check is missing.
NotConnectedNever(conn) == FALSE

\* if conn == nil
NotConnected(conn) == conn = 0

\* if conn == nil { return errors.New("not connected") }, else the call
\* conn.Invoke(...) or conn.NewStream(...) is made; on the nil interface it
\* panics.
CallCheck(c) ==
  /\ rcc.at[c] = "check"
  /\ IF NotConnected(rcc.snap[c])
     THEN rcc' = [rcc EXCEPT !.at[c] = "ret", !.res[c] = "notConnected"]
     ELSE IF rcc.snap[c] = 0
     THEN rcc' = [rcc EXCEPT !.at[c] = "ret", !.res[c] = "panic"]
     ELSE rcc' = [rcc EXCEPT !.at[c] = "inChannel",
                             !.delegated[c] = @ \cup {rcc.snap[c]}]
  /\ EngineIdle

\* The channel's Invoke or NewStream returns; a closed channel returns a
\* well-formed error.
CallChannelReturns(c) ==
  /\ rcc.at[c] = "inChannel"
  /\ rcc' = [rcc EXCEPT !.at[c] = "ret",
                        !.res[c] = IF rcc.closes[rcc.snap[c]] > 0
                                   THEN "channelError" ELSE "channelResult"]
  /\ EngineIdle

\* The call returns res[c] to its caller; its locals are gone.
CallReturn(c) ==
  /\ rcc.at[c] = "ret"
  /\ rcc' = [rcc EXCEPT !.at[c] = "idle", !.snap[c] = 0,
                        !.res[c] = "none", !.delegated[c] = {}, !.seen[c] = {}]
  /\ EngineIdle

\* ReplaceConn(conn) is called.
ReplaceBegin(conn) ==
  /\ rcc.at["rep"] = "idle"
  /\ rcc' = [rcc EXCEPT !.at["rep"] = "lock", !.arg = conn]
  /\ EngineIdle

\* c.connMu.Lock()
ReplaceLock ==
  /\ rcc.at["rep"] = "lock"
  /\ LockFree
  /\ rcc' = [rcc EXCEPT !.at["rep"] = "set", !.writer = "rep"]
  /\ EngineIdle

\* Variant: ReplaceConn closes the channel it replaces.
ReplaceConnClosesOld(closes, old) ==
  IF old # 0 THEN [closes EXCEPT ![old] = Min(MaxCloses, @ + 1)] ELSE closes

\* The Close calls ReplaceConn makes on the channel it replaces: none.
ReplaceConnCloses(closes, old) == closes

\* The values c.conn has had between a call's entry and its snapshot.
SeenAlso(conn) ==
  [c \in Callers |-> IF rcc.at[c] \in {"rlock", "read"}
                     THEN rcc.seen[c] \cup {conn} ELSE rcc.seen[c]]

\* c.conn = conn; c.connMu.Unlock()
ReplaceSet ==
  /\ rcc.at["rep"] = "set"
  /\ rcc' = [rcc EXCEPT !.at["rep"] = "idle", !.writer = "none",
                        !.conn = rcc.arg, !.arg = 0,
                        !.closes = ReplaceConnCloses(@, rcc.conn),
                        !.seen = SeenAlso(rcc.arg),
                        !.closedSince = 0]
  /\ EngineIdle

\* Close() is called.
ConnCloseBegin ==
  /\ rcc.at["cls"] = "idle"
  /\ rcc' = [rcc EXCEPT !.at["cls"] = "lock"]
  /\ EngineIdle

\* c.connMu.Lock(); defer c.connMu.Unlock()
ConnCloseLock ==
  /\ rcc.at["cls"] = "lock"
  /\ LockFree
  /\ rcc' = [rcc EXCEPT !.at["cls"] = "body", !.writer = "cls",
                        !.was = rcc.conn, !.closesWas = rcc.closes]
  /\ EngineIdle

\* Variant: Close leaves the channel installed.
ConnAfterCloseKept(conn) == conn

\* c.conn = nil
ConnAfterClose(conn) == 0

\* Close, lines 546-551; r is what the channel's Close returns.
ConnCloseBody(r) ==
  /\ rcc.at["cls"] = "body"
  /\ IF rcc.conn = 0
     THEN /\ r = "nil"
          /\ rcc' = [rcc EXCEPT !.at["cls"] = "unlock", !.closeRet = "nil",
                                !.closedSince = Min(2, @ + 1)]
     ELSE /\ rcc.closes[rcc.conn] < MaxCloses
          /\ rcc' = [rcc EXCEPT !.at["cls"] = "unlock", !.closeRet = r,
                                !.conn = ConnAfterClose(@),
                                !.closes[rcc.conn] = @ + 1,
                                !.seen = SeenAlso(ConnAfterClose(rcc.conn)),
                                !.closedSince = Min(2, @ + 1)]
  /\ EngineIdle

\* The deferred Unlock and the return.
ConnCloseReturn ==
  /\ rcc.at["cls"] = "unlock"
  /\ rcc' = [rcc EXCEPT !.at["cls"] = "idle", !.writer = "none",
                        !.was = 0, !.closesWas = [n \in ConnIds |-> 0],
                        !.closeRet = "none"]
  /\ EngineIdle

\* --------------------------------------------------------- specifications
SeqsUpTo(S, n) == UNION {[1..k -> S] : k \in 0..n}

Conf(dir, trusted, connSvc, capDis, syncDis, mins, tgs, name, resolves, confs, failAt) ==
  [CaptureDir |-> dir, trusted |-> trusted, connSvc |-> connSvc,
   AdditionalSyncPaths |-> << >>,
   CaptureDisabled |-> capDis, ScheduledSyncDisabled |-> syncDis,
   SyncIntervalMins |-> mins, Tags |-> tgs, FileLastModifiedMillis |-> 0,
   SelectiveSyncerName |-> name, sensorResolves |-> resolves,
   ResourceConfigs |-> confs, envFailAt |-> failAt]

\* Capture side: the host calls Reconfigure and Close with varying declarations;
\* scheduled sync stays off.
CapDecls ==
  {DataCaptureConfig("a", 1, FALSE, TRUE), DataCaptureConfig("a", 2, FALSE, TRUE),
   DataCaptureConfig("a", 0, FALSE, TRUE), DataCaptureConfig("a", 1, TRUE, TRUE),
   DataCaptureConfig("a", 1, FALSE, FALSE), DataCaptureConfig("b", 1, FALSE, TRUE)}

CapConfs ==
  {Conf("", TRUE, "c1", FALSE, FALSE, 0, "nil", "", FALSE, confs, failAt) :
     confs \in SeqsUpTo(CapDecls, MaxDecls), failAt \in 0..MaxDecls}
  \cup {Conf("", TRUE, "c1", TRUE, FALSE, 0, "nil", "", FALSE, <<>>, 0)}

\* The host's call, with its arguments recorded (Call) or not (CallQuiet).
Call(c) == c.envFailAt <= Len(c.ResourceConfigs) /\ RecPart1(c) /\ args' = {c}
CallQuiet(c) == RecPart1(c) /\ UNCHANGED args

ReconfigureCap == \E c \in CapConfs : Call(c)

NextCap ==
  \/ RecLock
  \/ ReconfigureCap
  \/ RecPart2("ok")
  \/ RecReturn
  \/ CloseLock
  \/ CloseBody
  \/ CloseJoin
  \/ CloseReturn

SpecCap == Init /\ [][NextCap]_vars

\* Construction failures: declarations whose collector cannot be built, next
\* to one that can.
FailDecls ==
  {DataCaptureConfig("a", 1, FALSE, TRUE), DataCaptureConfig("a", 2, FALSE, TRUE),
   DataCaptureConfig("m", 1, FALSE, TRUE), DataCaptureConfig("n", 1, FALSE, TRUE),
   DataCaptureConfig("p", 1, FALSE, TRUE)}

FailConfs ==
  {Conf("", TRUE, "c1", FALSE, FALSE, 0, "nil", "", FALSE, confs, failAt) :
     confs \in SeqsUpTo(FailDecls, MaxDecls), failAt \in 0..MaxDecls}
  \cup {Conf("", TRUE, "c1", TRUE, FALSE, 0, "nil", "", FALSE, <<>>, 0)}

ReconfigureFail == \E c \in FailConfs : Call(c)

NextFail ==
  \/ RecLock
  \/ ReconfigureFail
  \/ RecPart2("ok")
  \/ RecReturn

SpecFail == Init /\ [][NextFail]_vars

\* Host side of sync: the host reconfigures the sync settings, the connection
\* service and the capture directory, and closes; the timer of a started
\* scheduler never fires.
HostConfs ==
  {Conf(dir, FALSE, connSvc, FALSE, syncDis, mins, tgs, "", FALSE,
        <<DataCaptureConfig("a", 1, FALSE, TRUE)>>, 0) :
     dir \in {"", "other"}, connSvc \in {"c1", "c2"}, syncDis \in BOOLEAN,
     mins \in {0, 1}, tgs \in {"nil", "t1"}}

AcquireResults == {"ok", "err", "notCloudManaged"}

ReconfigureHost == \E c \in HostConfs : CallQuiet(c)
ReconfigureHost2 == \E acq \in AcquireResults : RecPart2(acq)
IdleLoop == \E l \in LoopIds : LoopTop(l) \/ LoopDone(l)

NextHost ==
  \/ RecLock
  \/ ReconfigureHost
  \/ RecJoin
  \/ ReconfigureHost2
  \/ RecReturn
  \/ CloseLock
  \/ CloseBody
  \/ CloseJoin
  \/ CloseReturn
  \/ IdleLoop

SpecHost == Init /\ [][NextHost]_vars

\* Scheduler: the host switches scheduled sync and the selective sync sensor
\* on and off while the scheduler loop ticks and runs sync passes.
SchedConfs ==
  {Conf("", FALSE, "c1", FALSE, syncDis, mins, "nil", sel[1], sel[2],
        <<DataCaptureConfig("a", 1, FALSE, TRUE)>>, 0) :
     syncDis \in BOOLEAN, mins \in {0, 1},
     sel \in {<<"", FALSE>>, <<"s", TRUE>>, <<"s", FALSE>>}}

ReconfigureSched == \E c \in SchedConfs : CallQuiet(c)
ReconfigureSched2 == \E acq \in {"ok", "err"} : RecPart2(acq)
SchedulerLoop ==
  \E l \in LoopIds :
    \/ LoopTop(l)
    \/ LoopDone(l)
    \/ LoopTick(l)
    \/ LoopLock(l)
    \/ LoopLocked(l)
    \/ \E r \in Readings : LoopGate(l, r)
SyncPass ==
  \E t \in LoopIds :
    \/ PassFlush(t)
    \/ PassFlushFatal(t)
    \/ PassLock(t)
    \/ \E n \in 0..MaxFiles : PassWalk(t, n, 0)
    \/ PassUpload(t)
    \/ PassReturn(t)

NextSched ==
  \/ RecLock
  \/ ReconfigureSched
  \/ RecJoin
  \/ ReconfigureSched2
  \/ RecReturn
  \/ CloseLock
  \/ CloseBody
  \/ CloseJoin
  \/ CloseReturn
  \/ SchedulerLoop
  \/ SyncPass

SpecSched == Init /\ [][NextSched]_vars

\* Frequency log: the host reconfigures the declarations as in SpecCap and the
\* arguments of a call stay recorded until the next call, so that a step can
\* compare a call with the one before it.
RecReturnKeepsArgs ==
  /\ pc["host"] = "rec_ret"
  /\ lock' = "free"
  /\ pc' = [pc EXCEPT !["host"] = "idle"]
  /\ tasks' = Collect(tasks, svc.collectors)
  /\ syncers' = CollectSyncers(syncers, svc)
  /\ hl' = {}
  /\ pre' = {}
  /\ io' = {}
  /\ ret' = "none"
  /\ logs' = {}
  /\ UNCHANGED <<svc, ctxDone, toSync, pass, args>>
  /\ UNCHANGED <<fsys, rcc>>

NextLog ==
  \/ RecLock
  \/ ReconfigureCap
  \/ RecPart2("ok")
  \/ RecReturnKeepsArgs

SpecLog == Init /\ [][NextLog]_vars

\* Selective sync: the scheduler of SpecSched, with the arguments of the
\* host's Reconfigure calls recorded.
ReconfigureSensor == \E c \in SchedConfs : Call(c)

NextSensor ==
  \/ RecLock
  \/ ReconfigureSensor
  \/ RecJoin
  \/ ReconfigureSched2
  \/ RecReturn
  \/ CloseLock
  \/ CloseBody
  \/ CloseJoin
  \/ CloseReturn
  \/ SchedulerLoop
  \/ SyncPass

SpecSensor == Init /\ [][NextSensor]_vars

\* Connection handle: Invoke, NewStream, ReplaceConn and Close run on one
\* ReconfigurableClientConn.
ConnCalls ==
  \E c \in Callers :
    \/ CallBegin(c)
    \/ CallRLock(c)
    \/ CallSnapshot(c)
    \/ CallCheck(c)
    \/ CallChannelReturns(c)
    \/ CallReturn(c)
ConnReplace ==
  \/ \E conn \in 0..MaxConns : ReplaceBegin(conn)
  \/ ReplaceLock
  \/ ReplaceSet
ConnClose ==
  \/ ConnCloseBegin
  \/ ConnCloseLock
  \/ \E r \in {"nil", "err"} : ConnCloseBody(r)
  \/ ConnCloseReturn

NextConn == ConnCalls \/ ConnReplace \/ ConnClose

SpecConn == Init /\ [][NextConn]_vars

\* Manual sync: a caller runs Sync while the host reconfigures the tags and
\* the additional sync paths, and closes; the sync interval
\* stays 0, so no scheduler is started.
WithPaths(c, paths) == [c EXCEPT !.AdditionalSyncPaths = paths]

ManualConfs ==
  {WithPaths(Conf("", FALSE, "c1", FALSE, FALSE, 0, tgs, "", FALSE,
                  <<DataCaptureConfig("a", 1, FALSE, TRUE)>>, 0), paths) :
     tgs \in {"nil", "t1"}, paths \in {<< >>, <<"extra">>}}

ReconfigureManual == \E c \in ManualConfs : CallQuiet(c)
\* NewBuiltIn hands out the service only after its own Reconfigure returned
\* nil, so a caller of Sync finds the connection service stored.
Constructed == svc.cloudConnSvc # "none"
ManualSync ==
  \/ Constructed /\ SyncLock
  \/ \E acq \in AcquireResults : SyncInit(acq)
  \/ SyncReturn
ManualPass ==
  \/ PassFlush("sync")
  \/ PassFlushFatal("sync")
  \/ PassLock("sync")
  \/ \E nc, na \in 0..MaxFiles :
       (svc.additionalSyncPaths = << >> => na = 0) /\ PassWalk("sync", nc, na)
  \/ PassUpload("sync")
  \/ PassReturn("sync")

NextManual ==
  \/ RecLock
  \/ ReconfigureManual
  \/ RecPart2("ok")
  \/ RecReturn
  \/ CloseLock
  \/ CloseBody
  \/ CloseJoin
  \/ CloseReturn
  \/ ManualSync
  \/ ManualPass

SpecManual == Init /\ [][NextManual]_vars

\* Scheduler with progress: the goroutine of a scheduler loop and the host
\* inside cancelSyncScheduler are scheduled whenever they can take a step
\* (the Go scheduler runs every runnable goroutine; a goroutine blocked in
\* Lock or Wait is not runnable).
LoopSteps(l) ==
  \/ LoopTop(l)
  \/ LoopDone(l)
  \/ LoopTick(l)
  \/ LoopLock(l)
  \/ LoopLocked(l)
  \/ \E r \in Readings : LoopGate(l, r)
  \/ PassFlush(l)
  \/ PassLock(l)
  \/ \E n \in 0..MaxFiles : PassWalk(l, n, 0)
  \/ PassUpload(l)
  \/ PassReturn(l)

SchedFairness ==
  /\ WF_vars(RecJoin)
  /\ \A l \in LoopIds : WF_vars(LoopSteps(l))

SpecSchedLive == Init /\ [][NextSched]_vars /\ SchedFairness

\* Manual sync beside the scheduler: a caller runs Sync while the host of
\* SpecSched switches scheduled sync and the selective sync sensor on and off
\* and the scheduler loop ticks and runs its own passes.
NextManualSched ==
  \/ RecLock
  \/ ReconfigureSched
  \/ RecJoin
  \/ ReconfigureSched2
  \/ RecReturn
  \/ SchedulerLoop
  \/ SyncPass
  \/ ManualSync
  \/ ManualPass

SpecManualSched == Init /\ [][NextManualSched]_vars

\* Sync settings: the host changes the four sync settings and the capture
\* directory, with its calls recorded; the timer of a started scheduler never
\* fires.
WithFileLastModifiedMillis(c, v) == [c EXCEPT !.FileLastModifiedMillis = v]

SettingsConfs ==
  {WithFileLastModifiedMillis(
     Conf(dir, FALSE, "c1", FALSE, syncDis, mins, tgs, "", FALSE, << >>, 0), flm) :
     dir \in {"", "other"}, syncDis \in BOOLEAN, mins \in {0, 1},
     tgs \in {"nil", "t1"}, flm \in {0, 2 * defaultFileLastModifiedMillis}}

ReconfigureSettings == \E c \in SettingsConfs : Call(c)
ReconfigureSettings2 == \E acq \in {"ok", "err"} : RecPart2(acq)

NextSettings ==
  \/ RecLock
  \/ ReconfigureSettings
  \/ RecJoin
  \/ ReconfigureSettings2
  \/ RecReturn
  \/ IdleLoop

SpecSettings == Init /\ [][NextSettings]_vars

\* File selector: getAllFilesToSync is called once on a tree that holds up to
\* one completed capture file, one in-progress capture file and one other
\* file, each at the root, in a subdirectory, or in a failed directory.
DirPaths == {<< >>, <<"sub">>, <<FailedDir>>, <<"sub", FailedDir>>}
Ages == {-500, 500, defaultFileLastModifiedMillis, 2 * defaultFileLastModifiedMillis}
Thresholds == {500, defaultFileLastModifiedMillis, 2 * defaultFileLastModifiedMillis}
FileNames == << <<"a", FileExt>>, <<"b", InProgressFileExt>>, <<"c", ".txt">> >>

FilesNamed(name) ==
  {Absent} \cup {f \in {File(dirs, name, age, err) :
                          dirs \in DirPaths, age \in Ages,
                          err \in {"none", "lstat", "readdir"}} :
                   f.err = "readdir" => f.dirs # << >>}

Trees ==
  {<<a, b, c>> : a \in FilesNamed(FileNames[1]), b \in FilesNamed(FileNames[2]),
                 c \in FilesNamed(FileNames[3])}

InitFiles ==
  /\ InitEngine
  /\ rcc = NoRcc
  /\ \E fs \in Trees, lm \in Thresholds :
       fsys = [files |-> fs, lastModifiedMillis |-> lm, filePaths |-> {}, walked |-> FALSE]

NextFiles == Select

SpecFiles == InitFiles /\ [][NextFiles]_vars

\* ------------------------------------------------------------------ claims
Pre == CHOOSE x \in pre : TRUE
TheArgs == CHOOSE x \in args : TRUE

\* The host's Reconfigure has done its work and is about to unlock and return.
AtRecReturn == pc["host"] = "rec_ret" /\ args # {} /\ pre # {}

\* Declaration i of the call, as reconciliation sees it.
Decl(i) ==
  updateDataCaptureConfigs(TheArgs.ResourceConfigs[i], TheArgs.CaptureDir, TheArgs.Tags)
DeclIdx == 1..Len(TheArgs.ResourceConfigs)

\* Resolved handle, not disabled, frequency > 0.
Eligible(d) == d.Resource /\ ~d.Disabled /\ d.CaptureFrequencyHz > 0

FailsByIdentity(md) ==
  BuildCaptureMetadataFails(md) \/ CollectorLookupNil(md) \/ MissingAdditionalParam(md)

LiveTasks(heap, md) == {t \in TaskIds : heap[t].md = md /\ heap[t].closes = 0}
Created == {t \in TaskIds : Pre.tasks[t] = FreeTask /\ tasks[t] # FreeTask}

\* C1: with capture enabled, a declaration that is eligible and equal to the
\* declaration its identity's active task was built from keeps that very task:
\* the map entry is the same instance and the instance has not been closed.
C1_KeepsUnchangedTask ==
  (AtRecReturn /\ ~TheArgs.CaptureDisabled) =>
    \A i \in DeclIdx :
      LET d == Decl(i)
          old == Pre.svc.collectors[d.md]
      IN (/\ Eligible(d)
          /\ old # NoColl
          /\ Pre.tasks[old.Collector].closes = 0
          /\ Equals(old.Config, d))
         => /\ svc.collectors[d.md] = old
            /\ tasks[old.Collector] = Pre.tasks[old.Collector]

\* C2: at every point each SourceIdentity has at most one capture task that has
\* been started and not yet closed.
C2_AtMostOneLiveTask ==
  \A md \in resourceMethodMetadata : Cardinality(LiveTasks(tasks, md)) <= 1

\* C3: a Reconfigure whose declarations omit exactly one identity of the task
\* map and are otherwise equal to the declarations the active tasks were built
\* from leaves no running task of the omitted identity, removes it from the
\* map, closes no task of another identity and keeps every other map entry.
Omitted ==
  {md \in InMap(Pre.svc.collectors) : \A i \in DeclIdx : Decl(i).md # md}
OthersUnchanged ==
  \A i \in DeclIdx :
    /\ Eligible(Decl(i))
    /\ Pre.svc.collectors[Decl(i).md] # NoColl
    /\ Equals(Pre.svc.collectors[Decl(i).md].Config, Decl(i))
C3_OmittedAloneIsClosed ==
  (AtRecReturn /\ ~TheArgs.CaptureDisabled /\ Cardinality(Omitted) = 1 /\ OthersUnchanged) =>
    /\ \A md \in Omitted : svc.collectors[md] = NoColl /\ LiveTasks(tasks, md) = {}
    /\ \A t \in TaskIds : tasks[t].md \notin Omitted => tasks[t] = Pre.tasks[t]
    /\ \A md \in resourceMethodMetadata \ Omitted :
         svc.collectors[md] = Pre.svc.collectors[md]

\* C4 as stated: a Reconfigure with capture disabled closes every task of the
\* map and empties the map; the next Reconfigure with capture enabled builds
\* and starts one new task for each eligible declaration.
EligibleIdx == {i \in DeclIdx : Eligible(Decl(i))}
BuildableIdx ==
  {i \in EligibleIdx : ~FailsByIdentity(Decl(i).md) /\ TheArgs.envFailAt # i}
DisableClosesAll ==
  /\ InMap(svc.collectors) = {}
  /\ \A md \in InMap(Pre.svc.collectors) :
       tasks[Pre.svc.collectors[md].Collector].closes >= 1
CreatedAreStarted ==
  \A t \in Created : tasks[t].closes = 0 /\ \E i \in EligibleIdx : Decl(i).md = tasks[t].md
C5_FailureIsLocal ==
  (AtRecReturn /\ ~TheArgs.CaptureDisabled) =>
    \A i \in EligibleIdx :
      IF FailsByIdentity(Decl(i).md)
      THEN svc.collectors[Decl(i).md] = NoColl /\ ret = "ok"
      ELSE i \in BuildableIdx => svc.collectors[Decl(i).md] # NoColl

C5_Witness ==
  /\ AtRecReturn
  /\ ~TheArgs.CaptureDisabled
  /\ \E i, j \in EligibleIdx :
       /\ i < j
       /\ FailsByIdentity(Decl(i).md)
       /\ j \in BuildableIdx
       /\ svc.collectors[Decl(j).md] # NoColl
       /\ svc.collectors[Decl(j).md].Collector \in Created

\* C6: a Reconfigure rejected for its capture directory leaves every part of
\* the engine state as it was: task map, capture directory, connection service
\* reference, sync client, scheduler, selective sync state and sync settings.
C6_RejectedLeavesState ==
  (pc["host"] = "rec_ret" /\ ret = "errCaptureDir") =>
    /\ svc = Pre.svc
    /\ tasks = Pre.tasks
    /\ syncers = Pre.syncers
    /\ {l \in LoopIds : pc[l] # "none"} = Pre.running

\* C7: a Reconfigure that fails to acquire the remote connection returns with
\* the stored sync settings, the running scheduler, the task map and the sync
\* client as they were before the call.
SyncSettings(s) ==
  <<s.syncDisabled, s.syncIntervalMins, s.tags, s.fileLastModifiedMillis>>
C7_ConnErrorLeavesState ==
  (pc["host"] = "rec_ret" /\ ret = "errConn") =>
    /\ SyncSettings(svc) = SyncSettings(Pre.svc)
    /\ {l \in LoopIds : pc[l] # "none"} = Pre.running
    /\ svc.collectors = Pre.svc.collectors
    /\ svc.syncer = Pre.svc.syncer

\* C8: once cancelSyncScheduler inside Reconfigure, or Close, has returned, no
\* scheduler loop is left: the loop that was running has exited.
C8_StoppedMeansExited ==
  pc["host"] \in {"rec2", "close_ret"} => \A l \in LoopIds : pc[l] = "none"

C8_Witness ==
  /\ pc["host"] = "rec2"
  /\ Pre.running # {}
  /\ Pre.svc.syncRoutineCancelFn \in Pre.running

C11_MapReadUnderLock ==
  \A t \in Threads :
    /\ pc[t] # "fatal"
    /\ pc[t] = "flush" => (lock = t \/ pc["host"] \notin {"rec1", "close1"})

\* The steps of a manual Sync that has got as far as it has: every collector
\* of the map was flushed before the walks, the candidates are those of the
\* capture directory and of every additional path, every candidate gets one
\* SyncFile call before Sync returns nil, and a Sync that returns an error
\* built no usable client and ran no pass.
PassOf(t) == pass[t]
FoundBy(t) == PassOf(t).found[1] + PassOf(t).found[2] * PassOf(t).found[3]
SyncPassInOrder ==
  /\ pc["sync"] \in {"walk", "upload"} =>
       PassOf("sync").flushed = PassOf("sync").active
  /\ pc["sync"] = "upload" => toSync["sync"] + PassOf("sync").calls = FoundBy("sync")
  /\ (pc["sync"] = "sync_ret" /\ PassOf("sync").ret = "nil") =>
       /\ PassOf("sync").flushed = PassOf("sync").active
       /\ PassOf("sync").calls = FoundBy("sync")
  /\ (pc["sync"] = "sync_ret" /\ PassOf("sync").ret # "nil") =>
       /\ PassOf("sync").ret \in {"errConn", "errNotCloudManaged"}
       /\ PassOf("sync").built
       /\ PassOf("sync").calls = 0 /\ FoundBy("sync") = 0

\* C12: Sync builds the client when there is none, flushes every collector,
\* then computes the candidates of the capture directory and the additional
\* paths, calls SyncFile once for each candidate and returns nil; it returns
\* the build error and runs no pass when the client cannot be built.
C12_SyncOrder ==
  /\ pc["sync"] \notin {"panic", "fatal"}
  /\ SyncPassInOrder

\* C13: when Close returns, Close has been called on every capture task that
\* was started and not yet closed, the task map is empty, the sync client has
\* been closed and is absent, the scheduler has been cancelled and its loop has
\* exited, and the result is nil.
C13_CloseReleasesAll ==
  pc["host"] = "close_ret" =>
    /\ \A t \in TaskIds :
         (Pre.tasks[t] # FreeTask /\ Pre.tasks[t].closes = 0) => tasks[t].closes >= 1
    /\ InMap(svc.collectors) = {}
    /\ svc.syncer = NilSyncer
    /\ Pre.svc.syncer.kind = "client" => syncers[Pre.svc.syncer.id].state = "closed"
    /\ Pre.svc.syncRoutineCancelFn # "nil" => Pre.svc.syncRoutineCancelFn \in ctxDone
    /\ \A l \in LoopIds : pc[l] = "none"
    /\ ret = "ok"

\* The host's Reconfigure is about to return nil after it started the scheduler.
StartedScheduler ==
  /\ pc["host"] = "rec_ret"
  /\ pre # {}
  /\ ret = "ok"
  /\ SyncSettings(svc) # SyncSettings(Pre.svc)
  /\ svc.syncRoutineCancelFn # "nil"

\* C14: when Reconfigure has started the scheduler, a sync client that was
\* built from a connection is one built from the connection service that is
\* current at this call.
C14_ClientFromCurrentDependency ==
  (StartedScheduler /\ svc.syncer.kind = "client") =>
    syncers[svc.syncer.id].from = svc.cloudConnSvc

\* The sync settings of the call, as Reconfigure compares them.
SyncSettingsOf(c) ==
  <<c.ScheduledSyncDisabled, c.SyncIntervalMins, c.Tags, EffectiveFileLastModifiedMillis(c)>>
SettingsDiffer == SyncSettingsOf(TheArgs) # SyncSettings(Pre.svc)
Running == {l \in LoopIds : pc[l] # "none"}

\* What C15 says of a call that is about to return.
SettingsRule ==
  /\ ~SettingsDiffer =>
       /\ Running = Pre.running
       /\ svc.syncRoutineCancelFn = Pre.svc.syncRoutineCancelFn
       /\ svc.syncRoutineCancelFn # "nil" => svc.syncRoutineCancelFn \notin ctxDone
       /\ svc.syncer = Pre.svc.syncer
       /\ syncers = Pre.syncers
  /\ SettingsDiffer =>
       /\ SyncSettings(svc) = SyncSettingsOf(TheArgs)
       /\ Running \subseteq {svc.syncRoutineCancelFn}
       /\ Running # {} => /\ ~TheArgs.ScheduledSyncDisabled
                          /\ TheArgs.SyncIntervalMins # 0
                          /\ Running \cap ctxDone = {}

\* C15 as stated: a Reconfigure whose four sync settings equal the stored ones
\* leaves the scheduler loop and the sync client alone; one in which any
\* differs cancels the running loop and leaves a loop running only if
\* scheduled sync is enabled and the interval is not 0.
C15_SettingsDecideRestart == AtRecReturn => SettingsRule

\* C15 amended: the same, of a Reconfigure that passes the dependency and
\* capture directory checks; between the cancel and the restart no loop is left.
C15_SettingsDecideRestartUnlessRejected ==
  /\ (AtRecReturn /\ ret \notin {"errDeps", "errCaptureDir"}) => SettingsRule
  /\ (pc["host"] = "rec2" /\ args # {}) =>
       (SettingsDiffer /\ Running = {} /\ svc.syncRoutineCancelFn = "nil")

C15_Witness ==
  /\ AtRecReturn
  /\ ret = "ok"
  /\ SettingsDiffer
  /\ TheArgs.Tags # Pre.svc.tags
  /\ Pre.running # {}
  /\ Running # {}

\* C16: the gate lets the pass start exactly when the Readings call succeeded
\* and gave the boolean true for the should-sync key; a failed call, a missing
\* key and a value that is not a boolean count as false and the loop goes on
\* to its next iteration; with selective sync not configured the pass starts.
C16_GateResult ==
  [][\A l \in LoopIds :
       /\ (pc[l] = "gate" /\ pc'[l] # "gate") =>
            /\ pass'[l].reading \in Readings
            /\ pc'[l] = (IF pass'[l].reading = "true" THEN "flush" ELSE "top")
       /\ (pc[l] = "locked" /\ pc'[l] # "locked"
             /\ svc.syncer.kind # "nil" /\ ~svc.selectiveSyncEnabled) =>
            pc'[l] = "flush"]_vars

C16_Witness ==
  \E l \in LoopIds : pc[l] = "top" /\ pass[l].reading \in {"error", "absent", "notbool"}

\* The files of the walked tree and the ones getAllFilesToSync returned.
Present == {k \in 1..Len(fsys.files) : fsys.files[k] # Absent}
Returned == fsys.filePaths
InFailedDir(f) == \E i \in 1..Len(f.dirs) : f.dirs[i] = FailedDir
Readable(f) == f.err = "none"
Age(f) == IF f.age < 0 THEN 0 ELSE f.age

\* The threshold that applies to a file that is not a completed capture file,
\* and the three predicates as the claim words them, away from the boundary.
ThresholdFor(f) ==
  IF Ext(f) = InProgressFileExt THEN defaultFileLastModifiedMillis
  ELSE fsys.lastModifiedMillis
EligibleByClaim(f) ==
  \/ Ext(f) = FileExt
  \/ Ext(f) = InProgressFileExt /\ Age(f) > defaultFileLastModifiedMillis
  \/ Ext(f) \notin {FileExt, InProgressFileExt} /\ Age(f) > fsys.lastModifiedMillis

TheExample ==
  /\ fsys.lastModifiedMillis = 10000
  /\ \A k \in 1..3 : fsys.files[k] # Absent /\ fsys.files[k].dirs = << >>
                     /\ Readable(fsys.files[k])
  /\ fsys.files[2].age = 20000
  /\ fsys.files[3].age = 500

\* C17: of the readable regular files outside the failed directory, the
\* selector returns exactly those that are a completed capture file, an
\* abandoned in-progress file or a stale other file (ages equal to the
\* threshold aside); a completed capture file is returned at any age, an
\* in-progress file younger than the fixed threshold never; for a.completed,
\* b.inprogress aged 20000 and c.plain aged 500 with threshold 10000 it
\* returns a and b.
C17_SelectsEligible ==
  fsys.walked =>
    /\ \A k \in Present :
         LET f == fsys.files[k]
         IN (Readable(f) /\ ~InFailedDir(f)) =>
              /\ Age(f) # ThresholdFor(f) => (k \in Returned <=> EligibleByClaim(f))
              /\ Ext(f) = FileExt => k \in Returned
              /\ (Ext(f) = InProgressFileExt /\ Age(f) < defaultFileLastModifiedMillis)
                   => k \notin Returned
    /\ TheExample => Returned = {1, 2}

C17_Witness == fsys.walked /\ TheExample /\ Returned = {1, 2}

\* C18: no returned path lies inside a directory with the failed directory's
\* name, at any depth, whatever the file's extension or age.
C18_NeverInsideFailedDir ==
  \A k \in Returned : ~InFailedDir(fsys.files[k])

C18_Witness ==
  /\ fsys.walked
  /\ \E k \in Present :
       /\ fsys.files[k].dirs = <<"sub", FailedDir>>
       /\ Ext(fsys.files[k]) = FileExt
       /\ Readable(fsys.files[k])
       /\ k \notin Returned
  /\ \E k \in Returned : fsys.files[k].dirs = <<"sub">>

\* Tag lists that attach no tag: the empty list of NewBuiltIn, a nil list of
\* the configuration, and a client SetArbitraryFileTags was never called on.
NoTags == {"empty", "nil", "unset"}
SameTags(a, b) == a = b \/ (a \in NoTags /\ b \in NoTags)

\* C19: every SyncFile call is made on a client whose last
\* SetArbitraryFileTags call gave it the tags the engine holds at that moment.
C19_UploadsCarryCurrentTags ==
  \A t \in Threads :
    (PassOf(t).calls > 0 /\ PassOf(t).client.kind = "client") =>
      SameTags(PassOf(t).client.tags, PassOf(t).client.want)

\* C20: when the connection service reports that the machine is not cloud
\* managed, neither Reconfigure nor Sync returns that error: the call goes on
\* with the no-op client.
C20_NotCloudManagedIsNoError ==
  /\ pc["host"] = "rec_ret" => ret # "errNotCloudManaged"
  /\ pc["sync"] = "sync_ret" => PassOf("sync").ret # "errNotCloudManaged"

\* The Reconfigure call about to return named a selective-sync source that
\* its dependencies do not hold.
UnresolvedSourceCall ==
  /\ pc["host"] = "rec_ret"
  /\ \E c \in args : c.SelectiveSyncerName # "" /\ ~c.sensorResolves

\* C21: a Reconfigure whose selective-sync source cannot be resolved returns
\* no error because of it, and selective sync is disabled after the call.
C21_UnresolvedSourceDisables ==
  UnresolvedSourceCall =>
    ret \in {"ok", "errConn"} /\ ~svc.selectiveSyncEnabled

\* C21 as the code has it: the call returns no error because of the
\* source, and selective sync stays enabled with no sensor.
C21_UnresolvedSourceStaysEnabled ==
  UnresolvedSourceCall =>
    ret \in {"ok", "errConn"} /\ svc.selectiveSyncEnabled /\ svc.syncSensor = "nil"

C21_Witness == UnresolvedSourceCall /\ ret = "ok" /\ svc.syncRoutineCancelFn # "nil"

\* C22: a call of Invoke or NewStream that runs while ReplaceConn runs is
\* handed to exactly one channel, one that was installed between the call's
\* entry and its snapshot (the one before the replace or the one it
\* installed); after its snapshot a call holds no lock, so ReplaceConn
\* takes the mutex without waiting for it.
C22_OneChannelOldOrNew ==
  /\ \A c \in Callers :
       /\ rcc.at[c] \in {"check", "inChannel", "ret"} => c \notin rcc.readers
       /\ rcc.delegated[c] \subseteq (rcc.seen[c] \ {0})
       /\ rcc.at[c] = "inChannel" => Cardinality(rcc.delegated[c]) = 1
       /\ (rcc.at[c] = "ret" /\ rcc.res[c] # "notConnected") =>
            Cardinality(rcc.delegated[c]) = 1
  /\ (rcc.at["rep"] = "lock" /\ rcc.writer = "none"
        /\ \A c \in Callers : rcc.at[c] # "read") => ENABLED ReplaceLock

C22_Witness ==
  /\ rcc.at["Invoke"] = "inChannel" /\ rcc.delegated["Invoke"] = {1}
  /\ rcc.seen["Invoke"] = {1, 2}
  /\ rcc.at["rep"] = "set" /\ rcc.arg = 2

\* C23: a call during which no channel was installed returns "not connected"
\* and is handed to no channel; no call enters a channel without one.
C23_NotConnectedWithoutChannel ==
  \A c \in Callers :
    /\ (rcc.at[c] = "ret" /\ rcc.seen[c] = {0}) =>
         rcc.res[c] = "notConnected" /\ rcc.delegated[c] = {}
    /\ (rcc.at[c] = "check" /\ rcc.seen[c] = {0}) =>
         ENABLED CallCheck(c) /\ c \notin rcc.readers
    /\ rcc.at[c] = "inChannel" => rcc.seen[c] # {0}

C23_Witness ==
  /\ rcc.at["NewStream"] = "ret" /\ rcc.res["NewStream"] = "notConnected"
  /\ rcc.seen["NewStream"] = {0}
  /\ rcc.closedSince = 1 /\ rcc.closes[1] = 1 /\ rcc.at["cls"] = "idle"

\* C24: when Close is about to return, no channel is installed and the channel
\* that was installed has received exactly one more Close; a second Close with
\* no ReplaceConn in between found no channel, closed nothing and returns nil.
C24_CloseOnceThenNoop ==
  rcc.at["cls"] = "unlock" =>
    /\ rcc.conn = 0
    /\ IF rcc.was = 0
       THEN rcc.closes = rcc.closesWas /\ rcc.closeRet = "nil"
       ELSE rcc.closes = [rcc.closesWas EXCEPT ![rcc.was] = @ + 1]
    /\ rcc.closedSince = 2 => rcc.was = 0

C24_Witness ==
  /\ rcc.at["cls"] = "unlock" /\ rcc.closedSince = 2
  /\ rcc.closes[1] = 1 /\ rcc.closes[2] = 0

\* C25: ReplaceConn makes its argument the current channel and calls Close on
\* no channel; a call that is inside the channel it snapshotted can return
\* from it.
C25_ReplaceInstallsAndClosesNothing ==
  /\ [][(rcc.at["rep"] = "set" /\ rcc'.at["rep"] = "idle") =>
           (rcc'.conn = rcc.arg /\ rcc'.closes = rcc.closes)]_vars
  /\ [](\A c \in Callers : rcc.at[c] = "inChannel" => ENABLED CallChannelReturns(c))

C25_Witness ==
  /\ rcc.at["NewStream"] = "ret" /\ rcc.res["NewStream"] = "channelResult"
  /\ rcc.snap["NewStream"] = 1 /\ rcc.conn = 2 /\ rcc.at["rep"] = "idle"

\* shouldSync as the claim states it, for the reading rd of the sensor.
ShouldStart(rd) ==
  /\ svc.syncer.kind # "nil"
  /\ \/ ~svc.selectiveSyncEnabled
     \/ svc.selectiveSyncEnabled /\ svc.syncSensor # "nil" /\ rd = "true"

\* The engine holds a selective-sync source that could not be resolved; every
\* Reconfigure that gets past its checks leaves exactly its own source so.
UnresolvedSource == svc.selectiveSyncEnabled /\ svc.syncSensor = "nil"
SourceAsConfigured ==
  (pc["host"] \in {"rec_join", "rec2", "rec_ret"} /\ args # {} /\ ret # "errCaptureDir") =>
    (UnresolvedSource <=> \E c \in args : c.SelectiveSyncerName # "" /\ ~c.sensorResolves)

\* The step that decides a tick starts a pass exactly when ShouldStart says so.
TickDecision ==
  \A l \in LoopIds :
    (pc[l] \in {"locked", "gate"} /\ pc'[l] \in {"flush", "top"}) =>
      /\ pc'[l] = "flush" <=> ShouldStart(pass'[l].reading)
      /\ UnresolvedSource => pc'[l] = "top"

\* C26: a tick starts a sync pass exactly when a sync client exists and
\* selective sync is off, or is on with a resolved sensor whose reading is the
\* boolean true; while the configured source is unresolved no scheduled pass
\* is about to call sync().
C26_NoPassWhileUnresolved ==
  /\ []SourceAsConfigured
  /\ [][TickDecision]_vars
  /\ [](\A l \in LoopIds : pc[l] = "flush" => ~UnresolvedSource)

\* C26 for the tick's decision only: while the configured source is
\* unresolved no tick decides to start a pass; a pass decided by an earlier
\* tick may still be about to call sync().
C26_TickStartsPassIff ==
  /\ []SourceAsConfigured
  /\ [][TickDecision]_vars

C26_Witness ==
  \E l \in LoopIds :
    /\ pc[l] = "flush" /\ pass[l].reading = "true"
    /\ svc.selectiveSyncEnabled /\ svc.syncSensor # "nil" /\ svc.syncer.kind = "client"

\* Declaration i is eligible and its task is there after the call: the task of
\* an equal declaration is kept, or the construction does not fail.
Kept(i) ==
  /\ Pre.svc.collectors[Decl(i).md] # NoColl
  /\ Equals(Pre.svc.collectors[Decl(i).md].Config, Decl(i))
Succeeds(i) ==
  /\ Eligible(Decl(i))
  /\ ~FailsByIdentity(Decl(i).md)
  /\ Kept(i) \/ TheArgs.envFailAt # i
Declared(md) == {i \in DeclIdx : Decl(i).md = md}

\* C27: after a Reconfigure that reconciles with capture enabled, the map has
\* an entry for an identity exactly when a declaration of it is eligible and
\* its construction succeeded; the task the map held for an identity whose
\* declarations are now all ineligible is closed, and the identity has no map
\* entry.
C27_MapMatchesDeclarations ==
  (AtRecReturn /\ ret \notin {"errDeps", "errCaptureDir"} /\ ~TheArgs.CaptureDisabled) =>
    /\ InMap(svc.collectors) = {Decl(i).md : i \in {j \in DeclIdx : Succeeds(j)}}
    /\ \A md \in InMap(Pre.svc.collectors) :
         (Declared(md) # {} /\ \A i \in Declared(md) : ~Eligible(Decl(i))) =>
           /\ svc.collectors[md] = NoColl
           /\ tasks[Pre.svc.collectors[md].Collector].closes >= 1

C27_Witness ==
  /\ AtRecReturn /\ ret = "ok" /\ ~TheArgs.CaptureDisabled
  /\ \E md \in InMap(Pre.svc.collectors) :
       /\ Pre.tasks[Pre.svc.collectors[md].Collector].closes = 0
       /\ \E i \in Declared(md) : Decl(i).CaptureFrequencyHz = 0
       /\ \A i \in Declared(md) : ~Eligible(Decl(i))
       /\ svc.collectors[md] = NoColl
  /\ \E j \in DeclIdx : Succeeds(j) /\ ~Kept(j)

\* The three predicates of lines 649-653 for a file of the walked tree.
TimeSinceMod(f) == Max(f.age, 0)
Stuck(f) == isStuckInProgressCaptureFile(f, TimeSinceMod(f), fsys.lastModifiedMillis)
NotWritten(f) ==
  isNonCaptureFileThatIsNotBeingWrittenTo(f, TimeSinceMod(f), fsys.lastModifiedMillis)
Completed(f) == isCompletedCaptureFile(f)
HowManyHold(f) ==
  (IF Stuck(f) THEN 1 ELSE 0) + (IF NotWritten(f) THEN 1 ELSE 0)
    + (IF Completed(f) THEN 1 ELSE 0)

\* C28: for every file, whatever its extension and age, at most one of the
\* three eligibility predicates is true.
C28_MutuallyExclusive ==
  fsys.walked => \A k \in Present : HowManyHold(fsys.files[k]) <= 1

\* C28 as the code has it: the stuck in-progress predicate is never true
\* together with another one; the completed and the not-being-written
\* predicates are both true exactly for a completed capture file whose age has
\* reached the stale threshold.
C28_StuckExcludesOthers ==
  fsys.walked =>
    \A k \in Present :
      LET f == fsys.files[k]
      IN /\ Stuck(f) => ~Completed(f) /\ ~NotWritten(f)
         /\ (Completed(f) /\ NotWritten(f)) <=>
              (Ext(f) = FileExt /\ Age(f) >= fsys.lastModifiedMillis)

C28_Witness ==
  /\ fsys.walked
  /\ \E k \in Returned : HowManyHold(fsys.files[k]) = 2
  /\ \E k \in Returned : Stuck(fsys.files[k])

\* The files filepath.Walk hands to the walk function without an error.
Walked == {k \in Present : Readable(fsys.files[k]) /\ ~InFailedDir(fsys.files[k])}

\* C29: a walked file that is no completed capture file is returned exactly
\* when its age exceeds the threshold that applies to it; at an age equal to
\* the threshold it is not returned.
C29_EligibleAboveThreshold ==
  fsys.walked =>
    \A k \in Walked :
      LET f == fsys.files[k]
      IN Ext(f) # FileExt => (k \in Returned <=> Age(f) > ThresholdFor(f))

\* C29 as the code has it: such a file is returned exactly when its age is at
\* least the threshold; at an age equal to the threshold it is returned.
C29_EligibleFromThreshold ==
  fsys.walked =>
    \A k \in Walked :
      LET f == fsys.files[k]
      IN Ext(f) # FileExt => (k \in Returned <=> Age(f) >= ThresholdFor(f))

C29_Witness ==
  /\ fsys.walked
  /\ \E k \in Walked \cap Returned :
       Ext(fsys.files[k]) = ".txt" /\ fsys.files[k].age = fsys.lastModifiedMillis
  /\ \E k \in Walked \cap Returned :
       Ext(fsys.files[k]) = InProgressFileExt
         /\ fsys.files[k].age = defaultFileLastModifiedMillis

\* C30: a walked file modified after the clock's time is treated as a file of
\* age zero: it is returned if it is a completed capture file and not returned
\* otherwise, the thresholds being positive.
C30_NegativeAgeIsZero ==
  fsys.walked =>
    \A k \in Walked :
      LET f == fsys.files[k]
      IN f.age < 0 =>
           /\ k \in Returned <=> visitFile([f EXCEPT !.age = 0], fsys.lastModifiedMillis)
           /\ Ext(f) = FileExt => k \in Returned
           /\ Ext(f) # FileExt => k \notin Returned

C30_Witness ==
  /\ fsys.walked
  /\ \E k \in Walked \cap Returned : fsys.files[k].age < 0
  /\ \E k \in Walked \ Returned :
       fsys.files[k].age < 0 /\ -fsys.files[k].age >= fsys.lastModifiedMillis

\* The host's call reconciles the declarations in this step: capture is
\* enabled and the call got past its checks.
Reconciles ==
  /\ pc["host"] = "rec1" /\ pc'["host"] # "rec1"
  /\ ret' \notin {"errDeps", "errCaptureDir"}
  /\ \A c \in args' : ~c.CaptureDisabled
\* The declarations of the call with a resolved handle, by position.
ResolvedIdx(c) == {i \in 1..Len(c.ResourceConfigs) : c.ResourceConfigs[i].Resource}

\* The frequencies the call declares for identity md with a resolved handle.
DeclaredHz(c, md) ==
  {c.ResourceConfigs[i].CaptureFrequencyHz :
     i \in {j \in ResolvedIdx(c) : c.ResourceConfigs[j].md = md}}

\* C31: when Reconfigure reconciles, the frequency log line of an identity
\* declared with one frequency is emitted exactly when no frequency was recorded
\* for it or the recorded one differs from the declared one, and afterwards the
\* recorded frequency is the declared one; a call that repeats the previous
\* call emits no frequency log line.
C31_FrequencyLoggedOnChange ==
  [][Reconciles =>
       \A c \in args' :
         /\ \A md \in resourceMethodMetadata :
              \A hz \in DeclaredHz(c, md) :
                LET recorded == svc.componentMethodFrequencyHz[md]
                    logged == \E i \in logs' : c.ResourceConfigs[i].md = md
                IN DeclaredHz(c, md) = {hz} =>
                     /\ logged <=> (recorded = -1 \/ recorded # hz)
                     /\ svc'.componentMethodFrequencyHz[md] = hz
         /\ args = {c} => logs' = {}]_vars

\* Sync leaves its locked section: it returns or calls svc.sync().
SyncDecides == pc["sync"] = "locked" /\ pc'["sync"] # "locked"

\* C32 as stated: every manual Sync performs a sync pass, whatever the
\* scheduler's state.
C32_SyncAlwaysRunsPass ==
  [][SyncDecides => pc'["sync"] = "flush"]_vars

\* C32: a manual Sync performs a sync pass unless it had to build the sync
\* client and building it failed, whatever the scheduler settings, the position
\* of the scheduler loop and the selective sync sensor; the sensor's readings
\* are never taken for it.
C32_SyncRunsPassUnlessInitFails ==
  [][/\ SyncDecides => (pc'["sync"] = "flush" <=> pass'["sync"].ret = "none")
     /\ pass'["sync"].reading = "none"]_vars

\* A manual pass uploads while selective sync is enabled and the scheduler
\* loop has just been told false by the sensor.
C32_Witness ==
  /\ pc["sync"] = "upload"
  /\ pass["sync"].calls > 0
  /\ svc.selectiveSyncEnabled
  /\ svc.syncSensor # "nil"
  /\ \E l \in LoopIds : pc[l] = "top" /\ pass[l].reading = "false"

\* C33: a Reconfigure that waits in cancelSyncScheduler for the scheduler
\* loop to exit eventually gets past the wait.
C33_JoinCompletes ==
  (pc["host"] = "rec_join") ~> (pc["host"] # "rec_join")

\* C34: every SyncFile call of a pass, manual or scheduled, is made on a sync
\* client that exists and has not been closed.
C34_UploadClientPresentAndOpen ==
  \A t \in Threads :
    PassOf(t).client # NoClient =>
      /\ PassOf(t).client.kind # "nil"
      /\ PassOf(t).client.kind = "client" => PassOf(t).client.state = "open"

\* The scheduler loops that have been started and neither cancelled nor exited.
RunningLoops == {l \in LoopIds : pc[l] # "none" /\ l \notin ctxDone}

\* C35: when Reconfigure returns nil, a scheduler loop is running exactly when
\* scheduled sync is enabled and the sync interval is not 0.
C35_SchedulerMatchesSettings ==
  (pc["host"] = "rec_ret" /\ ret = "ok") =>
    (RunningLoops # {} <=> (~svc.syncDisabled /\ svc.syncIntervalMins # 0))

\* C36: Close is called at most once on every capture task instance.
C36_TaskClosedAtMostOnce ==
  \A t \in TaskIds : tasks[t] # FreeTask => tasks[t].closes <= 1

\* The Reconfigure about to return is the one NewBuiltIn runs on the struct it
\* has just built (no connection service stored yet, line 417), and it
\* returns an error, which NewBuiltIn passes on (lines 170-172).
NewBuiltInFails ==
  /\ pc["host"] = "rec_ret"
  /\ ret # "ok"
  /\ pre # {}
  /\ Pre.svc.cloudConnSvc = "none"

\* C37: when NewBuiltIn returns an error, every capture task it started has
\* been closed, no scheduler loop runs, and no sync client is open and no
\* acquired connection is unclosed.
C37_FailedConstructionLeavesNothing ==
  NewBuiltInFails =>
    /\ \A t \in TaskIds : tasks[t] # FreeTask => tasks[t].closes >= 1
    /\ \A l \in LoopIds : pc[l] = "none"
    /\ \A n \in SyncerIds :
         syncers[n] # FreeSyncer =>
           syncers[n].state = "closed" /\ syncers[n].connCloses >= 1

\* A scheduler loop is started in this step.
StartsLoop(l) == pc[l] = "none" /\ pc'[l] = "top"

\* C38: at most one scheduler loop is running at any time, and a loop is
\* started only when every loop that was running when the call began has been
\* cancelled and has exited.
C38_OneLoopStartedAfterExit ==
  [][/\ Cardinality({l \in LoopIds : pc'[l] \notin {"none", "fatal"}}) <= 1
     /\ \A l \in LoopIds :
          StartsLoop(l) =>
            /\ \A k \in LoopIds : pc[k] = "none"
            /\ \A k \in Pre.running : k \in ctxDone]_vars

\* Reconfigure has started a scheduler loop in a call that found one running.
C38_Witness ==
  /\ pc["host"] = "rec_ret"
  /\ ret = "ok"
  /\ Pre.running # {}
  /\ \E l \in LoopIds : pc[l] \notin {"none", "fatal"} /\ l \notin ctxDone

\* C39: Close is called at most once on every connection acquired while
\* building a sync client.
C39_ConnectionClosedAtMostOnce ==
  \A n \in SyncerIds : syncers[n] # FreeSyncer => syncers[n].connCloses <= 1
====
